---------------------------- MODULE Spec2Model ----------------------------
(***************************************************************************)
(* Model of GasStoragePricer (src/Task_2/gas_storage_pricing.py): the      *)
(* price interpolation, the storage cost accrual, the greedy scheduling    *)
(* heuristic of optimize_storage_strategy and the price_contract entry     *)
(* point with its override of the pricer's storage cost rate.              *)
(*                                                                         *)
(* Dates are whole day numbers.  Real numbers are exact: a price, a cash   *)
(* amount or a cost rate is held as an integer count of 1/One units, where *)
(* One is a common multiple of every possible interval length, so that the *)
(* division of the interpolation weight is exact.  Volumes are integers.   *)
(* IEEE rounding of the Python floats is not represented.                  *)
(***************************************************************************)
EXTENDS Integers, Sequences, FiniteSets, TLC

\* ------------------------------------------------------------- bounds
\* Candidate injection (withdrawal) date lists have at most MaxDates entries.
MaxDates == 2
\* max_storage_volume ranges over 0..MaxVolume, injection_withdrawal_rate over
\* -1..MaxVolume.
MaxVolume == 2
\* The price series handed to interpolate_price by itself are observed on days
\* of 0..MaxObsDay, at prices of 0..MaxObsPrice.
MaxObsDay == 3
MaxObsPrice == 1
\* Calls made one after the other on one pricer in the sweep.
MaxSweep == 3

\* The calendar of the contracts, and the prices and cost rates (in 1/One
\* units) of the pricers they are priced on.
Days == 0..2
Prices == 0..1
CostRates == 0..1
LastDay == Cardinality(Days) - 1

ObsDays == 0..MaxObsDay
ObsPrices == 0..MaxObsPrice
\* The dates interpolate_price is asked for: the observed range and a day
\* beyond it on either side.
QueryDays == -1..(MaxObsDay + 1)

Rates == -1..MaxVolume
Volumes == 0..MaxVolume
\* None, as the absent storage_cost_per_unit_per_day argument: no rate is negative.
None == -1

\* ------------------------------------------------------- arithmetic
Min(a, b) == IF a <= b THEN a ELSE b
Max(a, b) == IF a >= b THEN a ELSE b

RECURSIVE Gcd(_, _)
Gcd(a, b) == IF b = 0 THEN a ELSE Gcd(b, a % b)

RECURSIVE LcmUpTo(_)
LcmUpTo(n) == IF n <= 1 THEN 1 ELSE LET l == LcmUpTo(n - 1) IN (l * n) \div Gcd(l, n)

\* The fixed-point unit: the real number 1.
One == LcmUpTo(IF LastDay >= MaxObsDay THEN LastDay ELSE MaxObsDay)

RECURSIVE SumSeq(_)
SumSeq(s) == IF s = <<>> THEN 0 ELSE Head(s) + SumSeq(Tail(s))

\* ------------------------------------------------------------ sorting
\* list.sort / DataFrame.sort_values are stable: the indices of keys ordered
\* by ascending key, equal keys in their original order.
RECURSIVE OrderFrom(_, _)
OrderFrom(keys, rest) ==
    IF rest = {} THEN <<>>
    ELSE LET i == CHOOSE i \in rest :
                     \A j \in rest : keys[i] < keys[j] \/ (keys[i] = keys[j] /\ i <= j)
         IN <<i>> \o OrderFrom(keys, rest \ {i})

StableOrder(keys) == OrderFrom(keys, DOMAIN keys)

\* s sorted by ascending keys (keys[i] is the key of s[i]), stable.
SortByKey(s, keys) == LET o == StableOrder(keys) IN [i \in DOMAIN s |-> s[o[i]]]

\* -------------------------------------------------------- constructor
\* __init__: the price data sorted by Dates.
SortedByDates(points) == SortByKey(points, [i \in DOMAIN points |-> points[i].Dates])

\* ------------------------------------------------------ interpolation
DatesMin(pd) == CHOOSE d \in {pd[i].Dates : i \in DOMAIN pd} :
                    \A i \in DOMAIN pd : d <= pd[i].Dates
DatesMax(pd) == CHOOSE d \in {pd[i].Dates : i \in DOMAIN pd} :
                    \A i \in DOMAIN pd : d >= pd[i].Dates

\* before * (1 - weight) + after * weight, weight in 1/One units.
LerpWrongSign(before, after, weight) == before * (One + weight) + after * weight
Lerp(before, after, weight) == before * (One - weight) + after * weight

interpolate_price(pd, date) ==
    IF date <= DatesMin(pd) THEN pd[1].Prices * One
    ELSE IF date >= DatesMax(pd) THEN pd[Len(pd)].Prices * One
    ELSE LET le == {i \in DOMAIN pd : pd[i].Dates <= date}
             gt == {i \in DOMAIN pd : pd[i].Dates > date}
             before == pd[CHOOSE i \in le : \A j \in le : j <= i]
             after == pd[CHOOSE i \in gt : \A j \in gt : i <= j]
             days_total == after.Dates - before.Dates
             days_from_before == date - before.Dates
         IN IF days_total = 0 THEN before.Prices * One
            ELSE LET weight == (days_from_before * One) \div days_total
                 IN Lerp(before.Prices, after.Prices, weight)

\* ------------------------------------------------- storage cost accrual
\* One iteration of the loop of calculate_storage_costs, reading the pricer's
\* rate: inventory_schedule[i] is <<date, inventory>>.
IntervalCost(inventory_schedule, i, rate) ==
    LET days == inventory_schedule[i + 1][1] - inventory_schedule[i][1]
        daily_cost == inventory_schedule[i][2] * rate
    IN daily_cost * days

calculate_storage_costs(inventory_schedule, rate) ==
    SumSeq([i \in 1..(Len(inventory_schedule) - 1) |->
                IntervalCost(inventory_schedule, i, rate)])

\* ------------------------------------------------ scheduling heuristic
\* [(date, price_map[date]) for date in dates]
PricedDates(dates, price_map) == [i \in DOMAIN dates |-> <<dates[i], price_map[dates[i]]>>]

\* The loop over injection_prices.  current_inventory is the local of line 122;
\* the loop never assigns it, so every iteration sees the value passed in.
RECURSIVE InjectionPass(_, _, _, _, _, _)
InjectionPass(injection_prices, withdrawal_prices, rate, cap, current_inventory, i) ==
    IF i > Len(injection_prices) THEN <<>>
    ELSE LET inj_date == injection_prices[i][1]
             inj_price == injection_prices[i][2]
             profitable_withdrawals ==
                 SelectSeq(withdrawal_prices,
                           LAMBDA w : w[2] > inj_price /\ w[1] > inj_date)
             volume_to_inject == Min(rate, cap - current_inventory)
             proposed == /\ profitable_withdrawals # <<>>
                         /\ current_inventory < cap
                         /\ volume_to_inject > 0
         IN (IF proposed
             THEN << <<inj_date, "inject", volume_to_inject, inj_price>> >>
             ELSE <<>>)
            \o InjectionPass(injection_prices, withdrawal_prices, rate, cap,
                             current_inventory, i + 1)

\* The loop over withdrawal_prices, appending to all_operations.
RECURSIVE WithdrawalPass(_, _, _, _)
WithdrawalPass(withdrawal_prices, all_operations, rate, i) ==
    IF i > Len(withdrawal_prices) THEN all_operations
    ELSE LET with_date == withdrawal_prices[i][1]
             with_price == withdrawal_prices[i][2]
             prior_injections ==
                 SelectSeq(all_operations,
                           LAMBDA op : op[1] < with_date /\ op[2] = "inject")
             available_volume ==
                 SumSeq([k \in DOMAIN prior_injections |-> prior_injections[k][3]])
             volume_to_withdraw == Min(rate, available_volume)
         IN IF prior_injections # <<>> /\ available_volume > 0
            THEN WithdrawalPass(withdrawal_prices,
                     Append(all_operations,
                            <<with_date, "withdraw", volume_to_withdraw, with_price>>),
                     rate, i + 1)
            ELSE WithdrawalPass(withdrawal_prices, all_operations, rate, i + 1)

\* One iteration of the execution loop on the running state
\* st = [strategy, inventory_schedule, current_inventory, total_cash_flow].
ExecuteOneNoCapacityCheck(st, op, cap) ==
    LET date == op[1]
        operation == op[2]
        volume == op[3]
        price == op[4]
        applied == \/ operation = "inject"
                   \/ operation = "withdraw" /\ st.current_inventory >= volume
        sign == IF operation = "inject" THEN 1 ELSE -1
        inv == IF applied THEN st.current_inventory + sign * volume
               ELSE st.current_inventory
    IN [strategy |->
            IF applied
            THEN Append(st.strategy,
                        [date |-> date, operation |-> operation, volume |-> volume,
                         price |-> price, cash_flow |-> (-sign) * volume * price,
                         inventory_after |-> inv])
            ELSE st.strategy,
        inventory_schedule |-> Append(st.inventory_schedule, <<date, inv>>),
        current_inventory |-> inv,
        total_cash_flow |->
            IF applied THEN st.total_cash_flow - sign * volume * price
            ELSE st.total_cash_flow]
ExecuteOne(st, op, cap) ==
    LET date == op[1]
        operation == op[2]
        volume == op[3]
        price == op[4]
        applied == \/ operation = "inject" /\ st.current_inventory + volume <= cap
                   \/ operation = "withdraw" /\ st.current_inventory >= volume
        sign == IF operation = "inject" THEN 1 ELSE -1
        inv == IF applied THEN st.current_inventory + sign * volume
               ELSE st.current_inventory
    IN [strategy |->
            IF applied
            THEN Append(st.strategy,
                        [date |-> date, operation |-> operation, volume |-> volume,
                         price |-> price, cash_flow |-> (-sign) * volume * price,
                         inventory_after |-> inv])
            ELSE st.strategy,
        inventory_schedule |-> Append(st.inventory_schedule, <<date, inv>>),
        current_inventory |-> inv,
        total_cash_flow |->
            IF applied THEN st.total_cash_flow - sign * volume * price
            ELSE st.total_cash_flow]

RECURSIVE Execute(_, _, _, _)
Execute(st, all_operations, cap, i) ==
    IF i > Len(all_operations) THEN st
    ELSE Execute(ExecuteOne(st, all_operations[i], cap), all_operations, cap, i + 1)

\* The forced liquidation at contract end and the final schedule sample.
LiquidateAlways(st, contract_end, end_price) ==
    [strategy |->
         IF st.current_inventory >= 0
         THEN Append(st.strategy,
                     [date |-> contract_end, operation |-> "liquidate",
                      volume |-> st.current_inventory, price |-> end_price,
                      cash_flow |-> st.current_inventory * end_price,
                      inventory_after |-> 0])
         ELSE st.strategy,
     inventory_schedule |-> Append(st.inventory_schedule, <<contract_end, 0>>),
     current_inventory |-> st.current_inventory,
     total_cash_flow |->
         IF st.current_inventory >= 0
         THEN st.total_cash_flow + st.current_inventory * end_price
         ELSE st.total_cash_flow]
LiquidateWithSample(st, contract_end, end_price) ==
    [strategy |->
         IF st.current_inventory > 0
         THEN Append(st.strategy,
                     [date |-> contract_end, operation |-> "liquidate",
                      volume |-> st.current_inventory, price |-> end_price,
                      cash_flow |-> st.current_inventory * end_price,
                      inventory_after |-> 0])
         ELSE st.strategy,
     inventory_schedule |->
         (IF st.current_inventory > 0
          THEN Append(st.inventory_schedule, <<contract_end, 0>>)
          ELSE st.inventory_schedule) \o << <<contract_end, 0>> >>,
     current_inventory |-> st.current_inventory,
     total_cash_flow |->
         IF st.current_inventory > 0
         THEN st.total_cash_flow + st.current_inventory * end_price
         ELSE st.total_cash_flow]
Liquidate(st, contract_end, end_price) ==
    [strategy |->
         IF st.current_inventory > 0
         THEN Append(st.strategy,
                     [date |-> contract_end, operation |-> "liquidate",
                      volume |-> st.current_inventory, price |-> end_price,
                      cash_flow |-> st.current_inventory * end_price,
                      inventory_after |-> 0])
         ELSE st.strategy,
     inventory_schedule |-> Append(st.inventory_schedule, <<contract_end, 0>>),
     current_inventory |-> st.current_inventory,
     total_cash_flow |->
         IF st.current_inventory > 0
         THEN st.total_cash_flow + st.current_inventory * end_price
         ELSE st.total_cash_flow]

\* optimize_storage_strategy up to and including the final schedule sample
\* (lines 108-196): everything but the storage costs, which read the pricer's
\* rate.  all_operations (the sorted proposals) and remaining_inventory (the
\* inventory after the execution loop) are kept beside the returned fields.
BuildSchedule(pd, p) ==
    LET all_dates == {p.injection_dates[i] : i \in DOMAIN p.injection_dates}
                     \cup {p.withdrawal_dates[i] : i \in DOMAIN p.withdrawal_dates}
                     \cup {p.contract_start, p.contract_end}
        price_map == [d \in all_dates |-> interpolate_price(pd, d)]
        injection_unsorted == PricedDates(p.injection_dates, price_map)
        withdrawal_unsorted == PricedDates(p.withdrawal_dates, price_map)
        injection_prices ==
            SortByKey(injection_unsorted,
                      [i \in DOMAIN injection_unsorted |-> injection_unsorted[i][2]])
        withdrawal_prices ==
            SortByKey(withdrawal_unsorted,
                      [i \in DOMAIN withdrawal_unsorted |-> -withdrawal_unsorted[i][2]])
        injections == InjectionPass(injection_prices, withdrawal_prices,
                                    p.injection_withdrawal_rate,
                                    p.max_storage_volume, 0, 1)
        proposals == WithdrawalPass(withdrawal_prices, injections,
                                    p.injection_withdrawal_rate, 1)
        all_operations ==
            SortByKey(proposals, [i \in DOMAIN proposals |-> proposals[i][1]])
        executed == Execute([strategy |-> <<>>,
                             inventory_schedule |-> << <<p.contract_start, 0>> >>,
                             current_inventory |-> 0,
                             total_cash_flow |-> 0],
                            all_operations, p.max_storage_volume, 1)
        final == Liquidate(executed, p.contract_end,
                           interpolate_price(pd, p.contract_end))
    IN [strategy |-> final.strategy,
        inventory_schedule |-> final.inventory_schedule,
        total_cash_flow |-> final.total_cash_flow,
        price_map |-> price_map,
        all_operations |-> all_operations,
        remaining_inventory |-> executed.current_inventory]

\* The returned dictionary (lines 198-211), given the schedule and the storage
\* costs computed from it.
ValuationAddsCosts(sched, storage_costs) ==
    [strategy |-> sched.strategy,
     inventory_schedule |-> sched.inventory_schedule,
     total_cash_flow |-> sched.total_cash_flow,
     storage_costs |-> storage_costs,
     contract_value |-> sched.total_cash_flow + storage_costs,
     price_map |-> sched.price_map,
     all_operations |-> sched.all_operations,
     remaining_inventory |-> sched.remaining_inventory,
     outcome |-> "returned"]
Valuation(sched, storage_costs) ==
    [strategy |-> sched.strategy,
     inventory_schedule |-> sched.inventory_schedule,
     total_cash_flow |-> sched.total_cash_flow,
     storage_costs |-> storage_costs,
     contract_value |-> sched.total_cash_flow - storage_costs,
     price_map |-> sched.price_map,
     all_operations |-> sched.all_operations,
     remaining_inventory |-> sched.remaining_inventory,
     outcome |-> "returned"]

optimize_storage_strategy(pd, rate, p) ==
    LET sched == BuildSchedule(pd, p)
    IN Valuation(sched, calculate_storage_costs(sched.inventory_schedule, rate))

\* --------------------------------------------------------------- state
VARIABLES
    price_data,                     \* self.price_data: rows [Dates, Prices], sorted
    storage_cost_per_unit_per_day,  \* self.storage_cost_per_unit_per_day
    base_params,                    \* the contract the caller prices
    calls,                          \* the price_contract calls returned so far
    query,                          \* the last interpolate_price call and its result
    threads                         \* the concurrent price_contract calls in progress

vars == <<price_data, storage_cost_per_unit_per_day, base_params, calls, query, threads>>

\* ----------------------------------------- calls run to completion
\* What a returned call leaves in calls: the entry point, the override
\* argument, the pricer's rate the cost loop read, and the returned dictionary.
Returned(entry, override, rate, result) ==
    [entry |-> entry, override |-> override, rate |-> rate, result |-> result]

\* optimize_storage_strategy called directly on the pricer.
OptimizeStorageStrategy ==
    /\ calls' = Append(calls,
                       Returned("optimize_storage_strategy", None,
                                storage_cost_per_unit_per_day,
                                optimize_storage_strategy(price_data,
                                    storage_cost_per_unit_per_day, base_params)))
    /\ UNCHANGED <<price_data, storage_cost_per_unit_per_day, base_params, query, threads>>

\* The pricer's rate after lines 249-250.
OverriddenRate(override, current) == IF override # None THEN override ELSE current

\* price_contract run to completion by one caller: the override of the
\* pricer's rate, then optimize_storage_strategy.
PriceContract(override) ==
    LET rate == OverriddenRate(override, storage_cost_per_unit_per_day)
    IN /\ storage_cost_per_unit_per_day' = rate
       /\ calls' = Append(calls,
                          Returned("price_contract", override, rate,
                                   optimize_storage_strategy(price_data, rate,
                                                             base_params)))
       /\ UNCHANGED <<price_data, base_params, query, threads>>

\* interpolate_price called by itself.
InterpolatePrice(date) ==
    /\ query' = [asked |-> TRUE, date |-> date,
                 price |-> interpolate_price(price_data, date)]
    /\ UNCHANGED <<price_data, storage_cost_per_unit_per_day, base_params, calls, threads>>

\* ------------------------------------- price_contract, step by step
\* A thread's call of price_contract, split where it writes or reads the
\* pricer's rate: the override (line 250), the schedule (lines 108-196, which
\* touch no shared field), each iteration of the cost loop (line 78), and the
\* return.
ThreadIds == 1..2

Started(override) ==
    [pc |-> "override", override |-> override, sched |-> <<>>, i |-> 0,
     total_cost |-> 0, result |-> <<>>]

ThreadOverride(t) ==
    /\ threads[t].pc = "override"
    /\ storage_cost_per_unit_per_day' =
           OverriddenRate(threads[t].override, storage_cost_per_unit_per_day)
    /\ threads' = [threads EXCEPT ![t].pc = "schedule"]
    /\ UNCHANGED <<price_data, base_params, calls, query>>

ThreadSchedule(t) ==
    /\ threads[t].pc = "schedule"
    /\ threads' = [threads EXCEPT ![t].pc = "costs",
                                  ![t].sched = BuildSchedule(price_data, base_params),
                                  ![t].i = 1]
    /\ UNCHANGED <<price_data, storage_cost_per_unit_per_day, base_params, calls, query>>

ThreadCostStep(t) ==
    /\ threads[t].pc = "costs"
    /\ threads[t].i <= Len(threads[t].sched.inventory_schedule) - 1
    /\ threads' = [threads EXCEPT
           ![t].total_cost = @ + IntervalCost(threads[t].sched.inventory_schedule,
                                              threads[t].i,
                                              storage_cost_per_unit_per_day),
           ![t].i = @ + 1]
    /\ UNCHANGED <<price_data, storage_cost_per_unit_per_day, base_params, calls, query>>

ThreadReturn(t) ==
    /\ threads[t].pc = "costs"
    /\ threads[t].i > Len(threads[t].sched.inventory_schedule) - 1
    /\ threads' = [threads EXCEPT
           ![t].pc = "done",
           ![t].result = Valuation(threads[t].sched, threads[t].total_cost)]
    /\ UNCHANGED <<price_data, storage_cost_per_unit_per_day, base_params, calls, query>>

\* ------------------------------------------------------------- inputs
\* Candidate date lists: in calendar order, the same date possibly repeated.
\* A contract starts on the first or on the last day of the calendar and ends
\* on any day, so also before its start or before a candidate date.
DateLists ==
    {s \in UNION {[1..n -> Days] : n \in 0..MaxDates} :
        \A i, j \in DOMAIN s : i < j => s[i] <= s[j]}

Params == [injection_dates : DateLists,
           withdrawal_dates : DateLists,
           injection_withdrawal_rate : Rates,
           max_storage_volume : Volumes,
           contract_start : {0, LastDay},
           contract_end : Days]

Overrides == {None} \cup CostRates

\* The DataFrames handed to the constructor: at least one row, unique dates,
\* in any order.
PriceInputs ==
    {s \in UNION {[1..n -> [Dates : ObsDays, Prices : ObsPrices]] :
                     n \in 1..(MaxObsDay + 1)} :
        \A i, j \in DOMAIN s : i # j => s[i].Dates # s[j].Dates}

\* The DataFrames with a row for every day of the calendar.
DailyPriceInputs ==
    {s \in [1..(LastDay + 1) -> [Dates : Days, Prices : Prices]] :
        \A i \in DOMAIN s : s[i].Dates = i - 1}

\* A DataFrame with the first and the last day only, the price rising: the
\* days between are interpolated.
RisingPriceInput ==
    << [Dates |-> LastDay, Prices |-> 1], [Dates |-> 0, Prices |-> 0] >>

\* The contracts that span the calendar.
SpanningParams == {p \in Params : p.contract_start = 0 /\ p.contract_end = LastDay}

NoQuery == [asked |-> FALSE, date |-> 0, price |-> 0]
NoThreads == <<>>

\* ------------------------------------------------------ specifications
\* A pricer constructed from any daily price series and any rate, and
\* optimize_storage_strategy called once on it with any contract.
Init ==
    /\ price_data \in {SortedByDates(s) : s \in DailyPriceInputs}
    /\ storage_cost_per_unit_per_day \in CostRates
    /\ base_params \in Params
    /\ calls = <<>>
    /\ query = NoQuery
    /\ threads = NoThreads

Next == calls = <<>> /\ OptimizeStorageStrategy

Spec == Init /\ [][Next]_vars

\* A pricer constructed from any price series, and interpolate_price called
\* on it.
InitInterp ==
    /\ price_data \in {SortedByDates(s) : s \in PriceInputs}
    /\ storage_cost_per_unit_per_day = 0
    /\ base_params = [injection_dates |-> <<>>, withdrawal_dates |-> <<>>,
                      injection_withdrawal_rate |-> 0, max_storage_volume |-> 0,
                      contract_start |-> 0, contract_end |-> 0]
    /\ calls = <<>>
    /\ query = NoQuery
    /\ threads = NoThreads

NextInterp == \E date \in QueryDays : InterpolatePrice(date)

SpecInterp == InitInterp /\ [][NextInterp]_vars

\* The sweep of lines 376-390: one contract priced again and again on one
\* pricer, each call with or without an override of the rate.
InitSweep ==
    /\ price_data = SortedByDates(RisingPriceInput)
    /\ storage_cost_per_unit_per_day \in CostRates
    /\ base_params \in SpanningParams
    /\ calls = <<>>
    /\ query = NoQuery
    /\ threads = NoThreads

NextSweep == \E override \in Overrides : Len(calls) < MaxSweep /\ PriceContract(override)

SpecSweep == InitSweep /\ [][NextSweep]_vars

\* Two threads pricing one contract on one pricer, each with an override of
\* its own, their steps interleaved in any order.
InitConc ==
    /\ price_data = SortedByDates(RisingPriceInput)
    /\ storage_cost_per_unit_per_day \in CostRates
    /\ base_params \in SpanningParams
    /\ calls = <<>>
    /\ query = NoQuery
    /\ threads \in {th \in [ThreadIds -> {Started(o) : o \in CostRates}] :
                       th[1].override # th[2].override}

NextConc ==
    \E t \in ThreadIds :
        \/ ThreadOverride(t)
        \/ ThreadSchedule(t)
        \/ ThreadCostStep(t)
        \/ ThreadReturn(t)

SpecConc == InitConc /\ [][NextConc]_vars

\* -------------------------------------------------------------- claims
Levels(r) == {r.inventory_schedule[i][2] : i \in DOMAIN r.inventory_schedule}

OperationsOf(r, operation) ==
    SelectSeq(r.strategy, LAMBDA op : op.operation = operation)

VolumeOf(r, operation) ==
    LET ops == OperationsOf(r, operation)
    IN SumSeq([i \in DOMAIN ops |-> ops[i].volume])

ProposedInjections(r) == SelectSeq(r.all_operations, LAMBDA op : op[2] = "inject")

Liquidated(r) ==
    r.strategy # <<>> /\ r.strategy[Len(r.strategy)].operation = "liquidate"

\* C1: in every result of optimize_storage_strategy (max_storage_volume >= 0,
\* any rate, any candidate dates) every sample of inventory_schedule and the
\* inventory_after of every recorded operation lie in 0..max_storage_volume.
InventoryWithinCapacity ==
    \A k \in DOMAIN calls :
        LET r == calls[k].result
            cap == base_params.max_storage_volume
        IN /\ \A level \in Levels(r) : 0 <= level /\ level <= cap
           /\ \A i \in DOMAIN r.strategy :
                  /\ 0 <= r.strategy[i].inventory_after
                  /\ r.strategy[i].inventory_after <= cap

\* A call whose execution loop refused a proposed injection for lack of
\* capacity, the inventory standing at the full capacity.
InjectionRefusedAtCapacity ==
    \E k \in DOMAIN calls :
        LET r == calls[k].result
        IN /\ base_params.max_storage_volume > 0
           /\ base_params.max_storage_volume \in Levels(r)
           /\ Len(OperationsOf(r, "inject")) < Len(ProposedInjections(r))

\* C4: with a storage cost rate >= 0 the returned storage_costs is >= 0,
\* whatever the candidate dates and the contract start and end.
StorageCostsNonNegative ==
    \A k \in DOMAIN calls :
        calls[k].rate >= 0 => calls[k].result.storage_costs >= 0

\* C5: a valuation call with a rate <= 0, a capacity <= 0 or a contract end
\* before the contract start is rejected with an error and returns no result.
InvalidInput(p) ==
    \/ p.injection_withdrawal_rate <= 0
    \/ p.max_storage_volume <= 0
    \/ p.contract_end < p.contract_start

InvalidInputRejected ==
    \A k \in DOMAIN calls :
        InvalidInput(base_params) => calls[k].result.outcome = "error"

\* C6: one candidate injection date, one candidate withdrawal date later and
\* strictly higher priced, rate > 0, capacity > 0, both dates within the
\* contract: the strategy is one inject of V = min(rate, capacity) with cash flow
\* -V * inject price followed by one withdraw of V with cash flow
\* +V * withdraw price, no liquidate, and
\* contract_value = V * (withdraw price - inject price) - storage_costs.
SingleProfitablePair(p, r) ==
    /\ Len(p.injection_dates) = 1
    /\ Len(p.withdrawal_dates) = 1
    /\ p.withdrawal_dates[1] > p.injection_dates[1]
    /\ r.price_map[p.withdrawal_dates[1]] > r.price_map[p.injection_dates[1]]
    /\ p.injection_withdrawal_rate > 0
    /\ p.max_storage_volume > 0
    /\ p.contract_start <= p.injection_dates[1]
    /\ p.withdrawal_dates[1] <= p.contract_end

TailLevelZeroAfterLiquidation ==
    \A k \in DOMAIN calls :
        LET r == calls[k].result
            n == Len(r.inventory_schedule)
        IN Liquidated(r) => r.inventory_schedule[n - 1][2] = 0

\* C8 as amended: whenever the forced liquidation ran, the second-to-last
\* sample of the inventory schedule has the liquidated volume (> 0) as its
\* level, and the interval from that sample to the terminal (contract_end, 0)
\* sample contributes level * days * rate to storage_costs.
TailLevelIsLiquidatedVolume ==
    \A k \in DOMAIN calls :
        LET r == calls[k].result
            n == Len(r.inventory_schedule)
            volume == r.strategy[Len(r.strategy)].volume
            days == base_params.contract_end - r.inventory_schedule[n - 1][1]
        IN Liquidated(r) =>
               /\ volume > 0
               /\ r.inventory_schedule[n - 1][2] = volume
               /\ r.inventory_schedule[n] = <<base_params.contract_end, 0>>
               /\ r.storage_costs =
                      calculate_storage_costs(SubSeq(r.inventory_schedule, 1, n - 1),
                                              calls[k].rate)
                      + volume * days * calls[k].rate

\* A liquidation a day or more after the last proposal, at a positive cost
\* rate: the tail interval costs money.
LiquidatedAfterHolding ==
    \E k \in DOMAIN calls :
        LET r == calls[k].result
            n == Len(r.inventory_schedule)
        IN /\ Liquidated(r)
           /\ calls[k].rate > 0
           /\ base_params.contract_end > r.inventory_schedule[n - 1][1]

\* C9: the volumes of the injection proposals are each min(rate, capacity
\* minus the volume already proposed), so their sum never exceeds
\* max_storage_volume.  (The sum is read off all_operations, the proposals
\* the execution loop replays.)
InjectionProposalsWithinCapacity ==
    \A k \in DOMAIN calls :
        LET proposed == ProposedInjections(calls[k].result)
        IN SumSeq([i \in DOMAIN proposed |-> proposed[i][3]])
               <= base_params.max_storage_volume

\* C10: the injected volume equals the withdrawn volume plus the liquidated
\* volume; a liquidate operation is recorded exactly when the inventory after
\* the execution loop is > 0, its volume is that inventory, and it is the last
\* operation.
InjectedVolumeAccounted ==
    \A k \in DOMAIN calls :
        LET r == calls[k].result
        IN /\ VolumeOf(r, "inject") = VolumeOf(r, "withdraw") + VolumeOf(r, "liquidate")
           /\ (OperationsOf(r, "liquidate") # <<>>) <=> (r.remaining_inventory > 0)
           /\ Len(OperationsOf(r, "liquidate")) <= 1
           /\ \A i \in DOMAIN r.strategy :
                  r.strategy[i].operation = "liquidate" =>
                      /\ i = Len(r.strategy)
                      /\ r.strategy[i].volume = r.remaining_inventory

\* A strategy that injects, withdraws and liquidates.
InjectWithdrawLiquidate ==
    \E k \in DOMAIN calls :
        LET r == calls[k].result
        IN /\ VolumeOf(r, "withdraw") > 0
           /\ VolumeOf(r, "liquidate") > 0
           /\ VolumeOf(r, "inject") > VolumeOf(r, "liquidate")

\* C2: two price_contract calls on one pricer with the same arguments return
\* the same result, whatever calls were made before or between them.
RepeatedCallSameResult ==
    \A i, j \in DOMAIN calls :
        calls[i].override = calls[j].override => calls[i].result = calls[j].result

\* C3: of two concurrent price_contract calls with different overrides, each
\* returns the storage_costs of its own override rate.
OwnOverrideRateUsed ==
    \A t \in DOMAIN threads :
        threads[t].pc = "done" =>
            threads[t].result.storage_costs =
                calculate_storage_costs(threads[t].sched.inventory_schedule,
                                        threads[t].override)

=============================================================================
